---- MODULE Spec2Model ----
(***************************************************************************)
(* The compatibility facade of src/ai_compat.py: one module-level flag,    *)
(* PYDANTIC_V2, computed at import from pydantic.VERSION, and a set of     *)
(* functions that each dispatch on the flag to a method of the installed   *)
(* pydantic generation.  The facade is modelled statement by statement;    *)
(* the pydantic methods it delegates to (and functools.cached_property,    *)
(* which it re-exports) are modelled by their documented behaviour on      *)
(* two-field models with integer fields.                                   *)
(***************************************************************************)
EXTENDS Integers, Sequences, FiniteSets, TLC

VARIABLES
    VERSION,      \* pydantic.VERSION of the installed library, a string (sequence of characters)
    hasFunctools, \* whether functools.cached_property can be imported (Python >= 3.8)
    Model,        \* the model class the client program declared
    loaded,       \* whether the module body (lines 1-213) has run
    PYDANTIC_V2,  \* the module global of line 17
    flagWrites,   \* how many times PYDANTIC_V2 was assigned
    exports,      \* the names the module body binds conditionally (lines 43-61, 75-81, 176-213)
    stdout,       \* the lines printed to standard output
    last,         \* the last facade call: its name, its input, its outcome, the library calls it made
    objdict,      \* per client object, the value cached_property stored in its __dict__
    ncalls,       \* per client object, how many times the wrapped function was called
    got           \* the outcome of the last read of the cached attribute

vars == <<VERSION, hasFunctools, Model, loaded, PYDANTIC_V2, flagWrites, exports,
          stdout, last, objdict, ncalls, got>>

(***************************************************************************)
(* Bounds of the model.                                                    *)
(***************************************************************************)
MaxVal == 1       \* integer field values are 0..MaxVal
MaxPrints == 2    \* lines of standard output the model follows
MaxIndent == 1    \* indentation widths are 0..MaxIndent
MaxCalls == 2     \* calls of a cached property's function followed per object

(***************************************************************************)
(* Python values.  Every value is a record with a tag, so that values of   *)
(* different Python types compare unequal.                                 *)
(***************************************************************************)
IntV(n) == [tag |-> "int", v |-> n]
StrV(n) == [tag |-> "str", v |-> n]
BoolV(b) == [tag |-> "bool", v |-> IF b THEN 1 ELSE 0]
None == [tag |-> "None", v |-> 0]
PydanticUndefined == [tag |-> "PydanticUndefined", v |-> 0]
IntVals == {IntV(n) : n \in 0..MaxVal}

\* The outcome of a call: a returned value or a raised error.
Ok(x) == [ok |-> TRUE, val |-> x, err |-> "none"]
Raise(e) == [ok |-> FALSE, val |-> None, err |-> e]

Range(f) == {f[i] : i \in DOMAIN f}

(***************************************************************************)
(* The installed library.  pydantic.VERSION is a dotted version string;    *)
(* releases 1.x expose the first-generation API, releases 2.x the second.  *)
(***************************************************************************)
Versions ==
    { <<"1", ".", "1", "0">>, <<"1", ".", "2", ".", "0">>,
      <<"2", ".", "1", "1">> }

InstalledGen == IF Head(VERSION) = "2" THEN "v2" ELSE "v1"

\* str.startswith
startswith(s, prefix) ==
    /\ Len(s) >= Len(prefix)
    /\ SubSeq(s, 1, Len(prefix)) = prefix

(***************************************************************************)
(* Model classes.  A class declares its fields in order; a field has a     *)
(* name, an optional alias, an annotation, and either no default, a        *)
(* default value, or a default factory (given by the value it produces).   *)
(***************************************************************************)
NoAlias == "-"
NoFactory == None

FieldDecl(name, alias, annotation, default, factory) ==
    [name |-> name, alias |-> alias, annotation |-> annotation,
     default |-> default, default_factory |-> factory]

\* the first field: required, declared with or without an alias
DeclsA == {FieldDecl("a", al, "int", PydanticUndefined, NoFactory) : al \in {NoAlias, "A"}}

\* the second field: a default value (with or without an alias), a default
\* factory, or required
DeclsB ==
    {FieldDecl("b", NoAlias, "int", d, NoFactory) : d \in IntVals}
    \cup {FieldDecl("b", "B", "int", IntV(0), NoFactory),
          FieldDecl("b", NoAlias, "int", PydanticUndefined, IntV(MaxVal)),
          FieldDecl("b", NoAlias, "int", PydanticUndefined, NoFactory)}

Models == {[fields |-> <<da, db>>] : da \in DeclsA, db \in DeclsB}

FieldNames(M) == {d.name : d \in Range(M.fields)}
DeclOf(M, n) == CHOOSE d \in Range(M.fields) : d.name = n
KeyOf(d) == IF d.alias = NoAlias THEN d.name ELSE d.alias
DeclRequired(d) == d.default = PydanticUndefined /\ d.default_factory = NoFactory
\* the value a field takes when the input does not give one
DeclDefault(d) == IF d.default_factory = NoFactory THEN d.default ELSE d.default_factory
ValidFor(d, v) == v.tag = "int"

(***************************************************************************)
(* Inputs of the parse operations: mappings from keys to raw values, and   *)
(* values that are no mapping.                                             *)
(***************************************************************************)
InputKeys(M) == {d.name : d \in Range(M.fields)} \cup {KeyOf(d) : d \in Range(M.fields)}
RawVals == IntVals \cup {StrV(0)}
Dict(items) == [kind |-> "dict", items |-> items]
Dicts(M) ==
    UNION {{Dict(f) : f \in [D -> RawVals]} :
             D \in {D \in SUBSET InputKeys(M) : Cardinality(D) <= 2}}
NonDicts == {[kind |-> "int", items |-> <<>>], [kind |-> "None", items |-> <<>>]}
Objects(M) == Dicts(M) \cup NonDicts

Instance(M, values, fields_set) ==
    [kind |-> "instance", type |-> M, values |-> values, fields_set |-> fields_set]

\* BaseModel.model_validate (second generation) and BaseModel.parse_obj (first
\* generation), default configuration: fields are read by alias when one is
\* declared, unknown keys are ignored, a missing required field or a value of
\* the wrong type is a ValidationError.
Lib_validate(M, data) ==
    IF data.kind # "dict" THEN Raise("ValidationError")
    ELSE
      LET present(d) == KeyOf(d) \in DOMAIN data.items
          bad(d) == IF present(d) THEN ~ValidFor(d, data.items[KeyOf(d)])
                    ELSE DeclRequired(d)
      IN IF \E d \in Range(M.fields) : bad(d) THEN Raise("ValidationError")
         ELSE Ok(Instance(M,
                   [n \in FieldNames(M) |->
                       IF present(DeclOf(M, n)) THEN data.items[KeyOf(DeclOf(M, n))]
                       ELSE DeclDefault(DeclOf(M, n))],
                   {n \in FieldNames(M) : present(DeclOf(M, n))}))

\* BaseModel.model_dump (second generation) and BaseModel.dict (first
\* generation): keyed by field name (by_alias is left at its default).
Lib_dump(m, exclude, exclude_unset, exclude_defaults) ==
    LET keep(n) ==
          /\ n \notin exclude
          /\ exclude_unset => n \in m.fields_set
          /\ exclude_defaults =>
                ~(DeclOf(m.type, n).default # PydanticUndefined
                  /\ m.values[n] = DeclOf(m.type, n).default)
    IN Ok(Dict([n \in {x \in FieldNames(m.type) : keep(x)} |-> m.values[n]]))

\* BaseModel.model_copy / BaseModel.copy: a new instance with the same field
\* values and the same set of explicitly set fields.
Lib_copy(m, deep) == Ok(Instance(m.type, m.values, m.fields_set))

(***************************************************************************)
(* JSON text, as a sequence of tokens.                                     *)
(***************************************************************************)
Tok(t, s) == [t |-> t, s |-> s]
LBrace == Tok("punct", "{")
RBrace == Tok("punct", "}")
Colon == Tok("punct", ":")
Comma == Tok("punct", ",")
Space == Tok("ws", " ")
Newline == Tok("ws", "nl")
Text(toks) == [kind |-> "str", toks |-> toks]
Spaces(k) == [i \in 1..k |-> Space]
ValueTok(v) ==
    IF v.tag = "int" THEN Tok("num", ToString(v.v))
    ELSE IF v.tag = "str" THEN Tok("str", "x")
    ELSE Tok("null", "null")

\* The text of a mapping: compact (no white space) or with ", " and ": "
\* separators when indent is None; one member per line, indented by indent
\* spaces, otherwise.  order is the declared order of the fields.
JsonDumps(d, order, indent, compact) ==
    LET names == SelectSeq(order, LAMBDA n : n \in DOMAIN d.items)
        sep == IF compact /\ indent = None THEN <<>> ELSE <<Space>>
        lead(i) ==
            IF indent = None
            THEN IF i > 1 THEN <<Comma>> \o sep ELSE <<>>
            ELSE (IF i > 1 THEN <<Comma>> ELSE <<>>) \o <<Newline>> \o Spaces(indent.v)
        member(i) ==
            lead(i) \o <<Tok("str", names[i]), Colon>> \o sep \o <<ValueTok(d.items[names[i]])>>
        body[i \in 0..Len(names)] == IF i = 0 THEN <<>> ELSE body[i - 1] \o member(i)
    IN IF names = <<>> THEN <<LBrace, RBrace>>
       ELSE <<LBrace>> \o body[Len(names)]
              \o (IF indent = None THEN <<>> ELSE <<Newline>>) \o <<RBrace>>

InvalidJson == [kind |-> "invalid", items |-> <<>>]
NumOf(s) == CHOOSE n \in 0..MaxVal : ToString(n) = s
TokValue(t) ==
    IF t.t = "num" THEN IntV(NumOf(t.s))
    ELSE IF t.t = "str" THEN StrV(0)
    ELSE None

RECURSIVE JsonMembers(_, _)
JsonMembers(ts, acc) ==
    IF /\ Len(ts) >= 3
       /\ ts[1].t = "str"
       /\ ts[2] = Colon
       /\ ts[3].t \in {"num", "str", "null"}
    THEN LET acc2 == (ts[1].s :> TokValue(ts[3])) @@ acc
             rest == SubSeq(ts, 4, Len(ts))
         IN IF rest = <<>> THEN Dict(acc2)
            ELSE IF rest[1] = Comma THEN JsonMembers(Tail(rest), acc2)
            ELSE InvalidJson
    ELSE InvalidJson

\* The mapping a JSON text denotes, or InvalidJson when it is malformed.
JsonLoads(text) ==
    LET ts == SelectSeq(text.toks, LAMBDA t : t.t # "ws") IN
      IF Len(ts) < 2 \/ ts[1] # LBrace \/ ts[Len(ts)] # RBrace THEN InvalidJson
      ELSE IF Len(ts) = 2 THEN Dict(<<>>)
      ELSE JsonMembers(SubSeq(ts, 2, Len(ts) - 1), <<>>)

FieldOrder(M) == [i \in DOMAIN M.fields |-> M.fields[i].name]

\* BaseModel.model_dump_json (second generation, compact) and BaseModel.json
\* (first generation, json.dumps separators): every field, keyed by name.
Lib_dump_json(m, indent, compact) ==
    Ok(Text(JsonDumps(Dict(m.values), FieldOrder(m.type), indent, compact)))

\* BaseModel.model_validate_json (second generation) and BaseModel.parse_raw
\* (first generation): malformed JSON is a ValidationError, a well-formed
\* object is validated as a mapping.
Lib_validate_json(M, data) ==
    LET d == JsonLoads(data) IN
      IF d.kind = "invalid" THEN Raise("ValidationError") ELSE Lib_validate(M, d)

\* BaseModel.model_json_schema (second generation) and BaseModel.schema (first
\* generation): an object schema whose properties are keyed by alias
\* (by_alias is left at its default, True).
Lib_schema(M) ==
    Ok(Dict([title |-> "Model", type |-> "object",
             properties |-> [k \in {KeyOf(d) : d \in Range(M.fields)} |-> [type |-> "integer"]],
             required |-> {KeyOf(d) : d \in {x \in Range(M.fields) : DeclRequired(x)}}]))

(***************************************************************************)
(* Field-metadata records.  The second generation keeps FieldInfo objects  *)
(* in model_fields; the first keeps ModelField objects in __fields__,      *)
(* whose default is None when the field declares neither a default nor a   *)
(* default factory.  Both records carry the same keys; the attributes a    *)
(* class really has are those of FieldAttrs, and reading any other is an   *)
(* AttributeError (FieldCall).                                             *)
(***************************************************************************)
FieldInfoOf(d) ==
    [cls |-> "FieldInfo", alias |-> d.alias, annotation |-> d.annotation,
     default |-> d.default, default_factory |-> d.default_factory,
     required |-> FALSE, outer_type_ |-> "-"]

ModelFieldOf(d) ==
    [cls |-> "ModelField", alias |-> KeyOf(d), annotation |-> "-",
     default |-> IF d.default = PydanticUndefined THEN None ELSE d.default,
     default_factory |-> d.default_factory,
     required |-> DeclRequired(d), outer_type_ |-> d.annotation]

Lib_model_fields(M) == Ok(Dict([n \in FieldNames(M) |-> FieldInfoOf(DeclOf(M, n))]))
Lib___fields__(M) ==
    Ok(Dict([n \in FieldNames(M) |->
              IF InstalledGen = "v2" THEN FieldInfoOf(DeclOf(M, n)) ELSE ModelFieldOf(DeclOf(M, n))]))

\* FieldInfo.get_default() without call_default_factory (second generation):
\* None when a default factory is declared.  ModelField.get_default() (first
\* generation) calls the factory.
Lib_get_default(field) ==
    IF field.default_factory = NoFactory THEN Ok(field.default)
    ELSE IF field.cls = "FieldInfo" THEN Ok(None)
    ELSE Ok(field.default_factory)

Lib_is_required(field) ==
    Ok(BoolV(field.default = PydanticUndefined /\ field.default_factory = NoFactory))

\* The attributes and methods each generation's classes have.  The second
\* generation keeps some first-generation method names as deprecated aliases.
ModelAttrs(gen) ==
    IF gen = "v2"
    THEN {"model_validate", "model_dump", "model_dump_json", "model_validate_json",
          "model_json_schema", "model_copy", "model_config", "model_fields",
          "parse_obj", "dict", "parse_raw", "schema", "copy", "__fields__"}
    ELSE {"parse_obj", "dict", "json", "parse_raw", "schema", "copy",
          "__config__", "__fields__"}

FieldAttrs(cls) ==
    IF cls = "FieldInfo" THEN {"is_required", "get_default", "annotation"}
    ELSE {"required", "get_default", "outer_type_"}

Lib_model_config(M) == Ok([kind |-> "ConfigDict"])
Lib___config__(M) == Ok([kind |-> "Config"])

\* Attribute lookup on a model class or instance, and on a field record: a
\* name the installed generation does not have is an AttributeError.
ModelCall(attr, out) == IF attr \in ModelAttrs(InstalledGen) THEN out ELSE Raise("AttributeError")
FieldCall(field, attr, out) == IF attr \in FieldAttrs(field.cls) THEN out ELSE Raise("AttributeError")

(***************************************************************************)
(* The facade.  Every function gives the outcome of the call (result) and  *)
(* the library attributes it used, each with its outcome (calls).          *)
(***************************************************************************)
\* "return <delegated call>": the outcome of the call is the outcome of the function
Return(attr, out) == [result |-> out, calls |-> <<[attr |-> attr, out |-> out]>>]

\* line 17
DetectV2(version) == startswith(version, <<"2", ".">>)

validate_pydantic_version(v2) ==
    [printed |-> IF v2 THEN "Pydantic v2 is detected and in use."
                 ELSE "Pydantic v1 is detected and in use.",
     result |-> Ok(BoolV(v2)), calls |-> <<>>]

parse_obj(model, value) ==
    IF PYDANTIC_V2
    THEN Return("model_validate", ModelCall("model_validate", Lib_validate(model, value)))
    ELSE Return("parse_obj", ModelCall("parse_obj", Lib_validate(model, value)))

\* field_is_required without the second-generation branch
field_is_required_v1_only(field) ==
    Return("required", FieldCall(field, "required", Ok(BoolV(field.required))))

field_is_required(field) ==
    IF PYDANTIC_V2
    THEN Return("is_required", FieldCall(field, "is_required", Lib_is_required(field)))
    ELSE Return("required", FieldCall(field, "required", Ok(BoolV(field.required))))

field_get_default(field) ==
    LET value == FieldCall(field, "get_default", Lib_get_default(field))
        calls == <<[attr |-> "get_default", out |-> value]>>
    IN IF ~value.ok THEN [result |-> value, calls |-> calls]
       ELSE IF PYDANTIC_V2
       THEN IF value.val = PydanticUndefined
            THEN [result |-> Ok(None), calls |-> calls]
            ELSE [result |-> Ok(value.val), calls |-> calls]
       ELSE [result |-> Ok(value.val), calls |-> calls]

field_outer_type(field) ==
    IF PYDANTIC_V2
    THEN Return("annotation", FieldCall(field, "annotation", Ok(field.annotation)))
    ELSE Return("outer_type_", FieldCall(field, "outer_type_", Ok(field.outer_type_)))

get_model_config(model) ==
    IF PYDANTIC_V2
    THEN Return("model_config", ModelCall("model_config", Lib_model_config(model)))
    ELSE Return("__config__", ModelCall("__config__", Lib___config__(model)))

get_model_fields(model) ==
    IF PYDANTIC_V2
    THEN Return("model_fields", ModelCall("model_fields", Lib_model_fields(model)))
    ELSE Return("__fields__", ModelCall("__fields__", Lib___fields__(model)))

\* model_copy without the second-generation branch
model_copy_v1_only(model, deep) ==
    Return("copy", ModelCall("copy", Lib_copy(model, deep)))

model_copy(model, deep) ==
    IF PYDANTIC_V2
    THEN Return("model_copy", ModelCall("model_copy", Lib_copy(model, deep)))
    ELSE Return("copy", ModelCall("copy", Lib_copy(model, deep)))

model_json(model, indent) ==
    IF PYDANTIC_V2
    THEN Return("model_dump_json", ModelCall("model_dump_json", Lib_dump_json(model, indent, TRUE)))
    ELSE Return("json", ModelCall("json", Lib_dump_json(model, indent, FALSE)))

\* A call of model_json with the exclusion options of model_dump.  The
\* signature (line 131) has the keyword indent only: an option left at its
\* default need not be passed, any other is an unexpected keyword argument.
model_json_with(model, exclude, exclude_unset, exclude_defaults) ==
    IF exclude = {} /\ ~exclude_unset /\ ~exclude_defaults
    THEN model_json(model, None)
    ELSE [result |-> Raise("TypeError"), calls |-> <<>>]

model_dump(model, exclude, exclude_unset, exclude_defaults) ==
    IF PYDANTIC_V2
    THEN Return("model_dump",
                ModelCall("model_dump", Lib_dump(model, exclude, exclude_unset, exclude_defaults)))
    ELSE Return("dict",
                ModelCall("dict", Lib_dump(model, exclude, exclude_unset, exclude_defaults)))

\* model_parse with its two branches exchanged
model_parse_swapped(model, data) ==
    IF PYDANTIC_V2
    THEN Return("parse_obj", ModelCall("parse_obj", Lib_validate(model, data)))
    ELSE Return("model_validate", ModelCall("model_validate", Lib_validate(model, data)))

model_parse(model, data) ==
    IF PYDANTIC_V2
    THEN Return("model_validate", ModelCall("model_validate", Lib_validate(model, data)))
    ELSE Return("parse_obj", ModelCall("parse_obj", Lib_validate(model, data)))

\* model_parse_json wrapped in "try ... except Exception: return None"
model_parse_json_catching(model, data) ==
    LET out == IF PYDANTIC_V2
               THEN ModelCall("model_validate_json", Lib_validate_json(model, data))
               ELSE ModelCall("parse_raw", Lib_validate_json(model, data))
    IN [result |-> IF out.ok THEN out ELSE Ok(None),
        calls |-> <<[attr |-> IF PYDANTIC_V2 THEN "model_validate_json" ELSE "parse_raw",
                     out |-> out]>>]

model_parse_json(model, data) ==
    IF PYDANTIC_V2
    THEN Return("model_validate_json",
                ModelCall("model_validate_json", Lib_validate_json(model, data)))
    ELSE Return("parse_raw", ModelCall("parse_raw", Lib_validate_json(model, data)))

\* model_json_schema with its two branches exchanged
model_json_schema_swapped(model) ==
    IF PYDANTIC_V2
    THEN Return("schema", ModelCall("schema", Lib_schema(model)))
    ELSE Return("model_json_schema", ModelCall("model_json_schema", Lib_schema(model)))

model_json_schema(model) ==
    IF PYDANTIC_V2
    THEN Return("model_json_schema", ModelCall("model_json_schema", Lib_schema(model)))
    ELSE Return("schema", ModelCall("schema", Lib_schema(model)))

(***************************************************************************)
(* cached_property (functools, or the cached_property package): a          *)
(* non-data descriptor that stores what the wrapped function returns in    *)
(* the instance's __dict__ under the attribute's name.                     *)
(***************************************************************************)
Objs == {"o1", "o2"}
NotFound == [tag |-> "_NOT_FOUND", obj |-> "-", n |-> 0]
\* the wrapped function returns a value that tells the instance and the call
FuncValue(o, n) == [tag |-> "value", obj |-> o, n |-> n]
FuncOutcomes(o, n) == {Ok(FuncValue(o, n)), Raise("ValueError")}

\* a plain property: the function runs on every read and nothing is stored
property_get(o, out) == [stored |-> objdict[o], called |-> TRUE, out |-> out]

\* One read of the attribute on instance o, when the wrapped function's call
\* (if one is made) has outcome out: the new __dict__ entry, whether the
\* function was called, and the outcome of the read.
cached_property_get(o, out) ==
    IF objdict[o] # NotFound
    THEN [stored |-> objdict[o], called |-> FALSE, out |-> Ok(objdict[o])]
    ELSE IF out.ok
    THEN [stored |-> out.val, called |-> TRUE, out |-> out]
    ELSE [stored |-> NotFound, called |-> TRUE, out |-> out]

(***************************************************************************)
(* State machine.                                                          *)
(***************************************************************************)
NoCall == [op |-> "none", arg |-> None, ret |-> "none", result |-> Ok(None), calls |-> <<>>]
Unbound ==
    [typing |-> "unbound", datetime_parse |-> "unbound", ConfigDict |-> "unbound",
     GenericModel |-> <<>>, cached_property |-> "unbound", typed_cached_property |-> "unbound"]

Init ==
    /\ VERSION \in Versions
    /\ hasFunctools \in BOOLEAN
    /\ Model \in Models
    /\ loaded = FALSE
    /\ PYDANTIC_V2 = FALSE
    /\ flagWrites = 0
    /\ exports = Unbound
    /\ stdout = <<>>
    /\ last = NoCall
    /\ objdict = [o \in Objs |-> NotFound]
    /\ ncalls = [o \in Objs |-> 0]
    /\ got = [obj |-> "-", called |-> FALSE, out |-> Ok(NotFound)]

\* The module body, lines 1-213: the flag, the conditional imports, the call
\* of validate_pydantic_version on line 72, the conditional definitions.
Load ==
    /\ ~loaded
    /\ loaded' = TRUE
    /\ PYDANTIC_V2' = DetectV2(VERSION)
    /\ flagWrites' = flagWrites + 1
    /\ stdout' = Append(stdout, validate_pydantic_version(PYDANTIC_V2').printed)
    /\ exports' =
         LET cp == IF hasFunctools THEN "functools.cached_property"
                   ELSE "cached_property.cached_property"
         IN [typing |-> IF PYDANTIC_V2' THEN "pydantic.v1.typing" ELSE "pydantic.typing",
             datetime_parse |-> IF PYDANTIC_V2' THEN "pydantic.v1.datetime_parse"
                                ELSE "pydantic.datetime_parse",
             ConfigDict |-> IF PYDANTIC_V2' THEN "pydantic.ConfigDict" ELSE "None",
             GenericModel |-> IF PYDANTIC_V2' THEN <<"pydantic.BaseModel">>
                              ELSE <<"pydantic.generics.GenericModel", "pydantic.BaseModel">>,
             cached_property |-> cp, typed_cached_property |-> cp]
    /\ UNCHANGED <<VERSION, hasFunctools, Model, last, objdict, ncalls, got>>

Record(op, arg, ret, r) ==
    [op |-> op, arg |-> arg, ret |-> IF r.result.ok THEN ret ELSE "error",
     result |-> r.result, calls |-> r.calls]

Frame == UNCHANGED <<VERSION, hasFunctools, Model, loaded, PYDANTIC_V2, flagWrites,
                     exports, objdict, ncalls, got>>

\* validate_pydantic_version rebinding the global ("global PYDANTIC_V2; PYDANTIC_V2 = True")
Call_validate_rebinding ==
    /\ loaded
    /\ Len(stdout) < MaxPrints
    /\ stdout' = Append(stdout, validate_pydantic_version(PYDANTIC_V2).printed)
    /\ last' = Record("validate_pydantic_version", None, "bool",
                      validate_pydantic_version(PYDANTIC_V2))
    /\ PYDANTIC_V2' = TRUE
    /\ flagWrites' = flagWrites + 1
    /\ UNCHANGED <<VERSION, hasFunctools, Model, loaded, exports, objdict, ncalls, got>>

Call_validate_pydantic_version ==
    /\ loaded
    /\ Len(stdout) < MaxPrints
    /\ stdout' = Append(stdout, validate_pydantic_version(PYDANTIC_V2).printed)
    /\ last' = Record("validate_pydantic_version", None, "bool",
                      validate_pydantic_version(PYDANTIC_V2))
    /\ Frame

\* a mapping the program holds: one of the inputs, or the one just dumped
HeldObjects == Objects(Model) \cup (IF last.ret = "dict" THEN {last.result.val} ELSE {})

Call_parse_obj ==
    /\ loaded
    /\ \E value \in HeldObjects :
         last' = Record("parse_obj", value, "instance", parse_obj(Model, value))
    /\ UNCHANGED stdout
    /\ Frame

Call_model_parse ==
    /\ loaded
    /\ \E data \in HeldObjects :
         last' = Record("model_parse", data, "instance", model_parse(Model, data))
    /\ UNCHANGED stdout
    /\ Frame

JsonTexts ==
    { Text(<<LBrace>>), Text(<<>>),
      Text(<<LBrace, Tok("str", "a"), Colon, RBrace>>),
      Text(<<LBrace, Tok("str", "a"), Colon, Tok("num", "1"), Comma, RBrace>>),
      Text(<<LBrace, Tok("str", "a"), Colon, Tok("num", "1"), RBrace>>),
      Text(<<LBrace, Tok("str", "a"), Colon, Tok("str", "x"), RBrace>>) }

HeldTexts == JsonTexts \cup (IF last.ret = "str" THEN {last.result.val} ELSE {})

Call_model_parse_json ==
    /\ loaded
    /\ \E data \in HeldTexts :
         last' = Record("model_parse_json", data, "instance", model_parse_json(Model, data))
    /\ UNCHANGED stdout
    /\ Frame

Call_model_dump ==
    /\ loaded
    /\ last.ret = "instance"
    /\ \E exclude \in SUBSET FieldNames(Model), exclude_unset \in BOOLEAN,
          exclude_defaults \in BOOLEAN :
         last' = Record("model_dump",
                        [model |-> last.result.val, exclude |-> exclude,
                         exclude_unset |-> exclude_unset, exclude_defaults |-> exclude_defaults],
                        "dict",
                        model_dump(last.result.val, exclude, exclude_unset, exclude_defaults))
    /\ UNCHANGED stdout
    /\ Frame

Indents == {None} \cup {IntV(k) : k \in 0..MaxIndent}

Call_model_json ==
    /\ loaded
    /\ last.ret = "instance"
    /\ \E indent \in Indents :
         last' = Record("model_json", [model |-> last.result.val, indent |-> indent], "str",
                        model_json(last.result.val, indent))
    /\ UNCHANGED stdout
    /\ Frame

Call_model_copy ==
    /\ loaded
    /\ last.ret = "instance"
    /\ \E deep \in BOOLEAN :
         last' = Record("model_copy", [model |-> last.result.val, deep |-> deep], "instance",
                        model_copy(last.result.val, deep))
    /\ UNCHANGED stdout
    /\ Frame

Call_model_json_schema ==
    /\ loaded
    /\ last' = Record("model_json_schema", Model, "schema", model_json_schema(Model))
    /\ UNCHANGED stdout
    /\ Frame

Call_get_model_config ==
    /\ loaded
    /\ last' = Record("get_model_config", Model, "config", get_model_config(Model))
    /\ UNCHANGED stdout
    /\ Frame

Call_get_model_fields ==
    /\ loaded
    /\ last' = Record("get_model_fields", Model, "fields", get_model_fields(Model))
    /\ UNCHANGED stdout
    /\ Frame

\* the field records the program holds: those get_model_fields just returned
HeldFields == IF last.ret = "fields" THEN DOMAIN last.result.val.items ELSE {}
FieldArg(n) == [name |-> n, field |-> last.result.val.items[n]]

Call_field_is_required ==
    /\ loaded
    /\ \E n \in HeldFields :
         last' = Record("field_is_required", FieldArg(n), "bool",
                        field_is_required(last.result.val.items[n]))
    /\ UNCHANGED stdout
    /\ Frame

Call_field_get_default ==
    /\ loaded
    /\ \E n \in HeldFields :
         last' = Record("field_get_default", FieldArg(n), "value",
                        field_get_default(last.result.val.items[n]))
    /\ UNCHANGED stdout
    /\ Frame

Call_field_outer_type ==
    /\ loaded
    /\ \E n \in HeldFields :
         last' = Record("field_outer_type", FieldArg(n), "type",
                        field_outer_type(last.result.val.items[n]))
    /\ UNCHANGED stdout
    /\ Frame

\* A read of an attribute declared with cached_property (typed_cached_property
\* is the same object) on one of the program's objects.
ReadCached ==
    /\ loaded
    /\ \E o \in Objs :
         /\ objdict[o] = NotFound => ncalls[o] < MaxCalls
         /\ \E out \in FuncOutcomes(o, ncalls[o] + 1) :
              LET r == cached_property_get(o, out) IN
                /\ objdict' = [objdict EXCEPT ![o] = r.stored]
                /\ ncalls' = [ncalls EXCEPT ![o] = IF r.called THEN @ + 1 ELSE @]
                /\ got' = [obj |-> o, called |-> r.called, out |-> r.out]
    /\ UNCHANGED <<VERSION, hasFunctools, Model, loaded, PYDANTIC_V2, flagWrites,
                   exports, stdout, last>>

Next ==
    \/ Load
    \/ Call_validate_pydantic_version
    \/ Call_parse_obj
    \/ Call_model_parse
    \/ Call_model_parse_json
    \/ Call_model_dump
    \/ Call_model_json
    \/ Call_model_copy
    \/ Call_model_json_schema
    \/ Call_get_model_config
    \/ Call_get_model_fields
    \/ Call_field_is_required
    \/ Call_field_get_default
    \/ Call_field_outer_type

\* the facade's functions, on an interpreter that has functools.cached_property
InitFacade == Init /\ hasFunctools
Spec == InitFacade /\ [][Next]_vars

\* the cached-property descriptor, with one model class
InitCache == Init /\ Model = CHOOSE M \in Models : TRUE
NextCache == Load \/ ReadCached
SpecCache == InitCache /\ [][NextCache]_vars

(***************************************************************************)
(* Properties.                                                             *)
(***************************************************************************)
Called(op) == last.op = op
ParsedInstance == last.op \in {"parse_obj", "model_parse"} /\ last.ret = "instance"
NoAliases(M) == \A d \in Range(M.fields) : d.alias = NoAlias
SameInstance(m1, m2) == m1.type = m2.type /\ m1.values = m2.values

\* C1: PYDANTIC_V2 is assigned once, by the module body, from the version
\* string, and no facade function changes it afterwards.
C1_FlagSetOnce ==
    /\ [](IF loaded
          THEN flagWrites = 1 /\ PYDANTIC_V2 = (SubSeq(VERSION, 1, 2) = <<"2", ".">>)
          ELSE flagWrites = 0)
    /\ [][loaded => (PYDANTIC_V2' = PYDANTIC_V2 /\ flagWrites' = flagWrites)]_vars

C1_Witness ==
    /\ loaded /\ PYDANTIC_V2
    /\ Called("validate_pydantic_version")
    /\ last.result = Ok(BoolV(TRUE))
    /\ Len(stdout) = 2

\* dumping an instance with the default options and parsing the mapping
\* gives an instance with the same field values
RoundTrips(m) ==
    LET d == model_dump(m, {}, FALSE, FALSE).result IN
      /\ d.ok
      /\ LET r == model_parse(m.type, d.val).result IN
            r.ok /\ SameInstance(r.val, m)

\* C2 as stated: every instance the parse operation returns, of any model
\* class, survives model_dump followed by model_parse.
C2_RoundTripEveryModel == ParsedInstance => RoundTrips(last.result.val)

\* C2 amended: every instance the parse operation returns, of a model class
\* whose fields declare no alias, survives model_dump followed by model_parse.
C2_RoundTripNoAlias == (ParsedInstance /\ NoAliases(Model)) => RoundTrips(last.result.val)

C2_Witness ==
    /\ Called("model_parse") /\ last.ret = "instance"
    /\ NoAliases(Model)
    /\ last.arg = Dict(last.result.val.values)
    /\ last.result.val.values["b"] # DeclDefault(DeclOf(Model, "b"))
    /\ RoundTrips(last.result.val)

\* C3: for the instance and the options of a model_dump call, parsing the
\* JSON text model_json gives with those options has the same outcome as
\* parsing the dumped mapping.
C3_JsonRouteEqualsMappingRoute ==
    (Called("model_dump") /\ last.ret = "dict") =>
      LET a == last.arg
          viaMapping == model_parse(Model, last.result.val).result
          text == model_json_with(a.model, a.exclude, a.exclude_unset,
                                  a.exclude_defaults).result
          viaJson == IF text.ok THEN model_parse_json(Model, text.val).result ELSE text
      IN /\ viaJson.ok = viaMapping.ok
         /\ viaJson.ok => SameInstance(viaJson.val, viaMapping.val)

\* C4: field_get_default returns the field's default when the field declares
\* one and None when it declares none, never the undefined sentinel.
C4_DefaultOrNone ==
    Called("field_get_default") =>
      LET d == DeclOf(Model, last.arg.name) IN
        /\ last.result.ok
        /\ last.result.val # PydanticUndefined
        /\ last.result.val = IF DeclRequired(d) THEN None ELSE DeclDefault(d)

\* C5: a facade call ends in the error its library call raised, returns when
\* the library call returned, and raises nothing when it makes no library
\* call; parsing a value that is no mapping, or a malformed JSON text, ends
\* in the library's ValidationError.
C5_ErrorsPassThrough ==
    /\ last.calls = <<>> => last.result.ok
    /\ last.calls # <<>> =>
         LET c == last.calls[Len(last.calls)] IN
           /\ ~c.out.ok => last.result = c.out
           /\ c.out.ok => last.result.ok
    /\ (last.op \in {"parse_obj", "model_parse"} /\ last.arg.kind # "dict")
         => last.result = Raise("ValidationError")
    /\ (Called("model_parse_json") /\ JsonLoads(last.arg) = InvalidJson)
         => last.result = Raise("ValidationError")

C5_Witness ==
    /\ Called("model_parse_json")
    /\ last.arg = Text(<<LBrace>>)
    /\ last.result = Raise("ValidationError")
    /\ last.calls[1].out = last.result

\* C6: loading the facade and calling its functions writes nothing to
\* standard output.
C6_NoOutput == stdout = <<>>

TwoFieldShape(M) ==
    /\ DeclRequired(DeclOf(M, "a"))
    /\ DeclOf(M, "b").default # PydanticUndefined
    /\ DeclOf(M, "b").default_factory = NoFactory

\* C7: for a model whose first field is required and whose second has a
\* default value d, on the records get_model_fields returned:
\* field_is_required is true for the first and false for the second, and
\* field_get_default of the second is d.
C7_Introspection ==
    (TwoFieldShape(Model) /\ last.op \in {"field_is_required", "field_get_default"}) =>
      /\ last.arg.field = get_model_fields(Model).result.val.items[last.arg.name]
      /\ Called("field_is_required") => last.result = Ok(BoolV(last.arg.name = "a"))
      /\ (Called("field_get_default") /\ last.arg.name = "b")
           => last.result = Ok(DeclOf(Model, "b").default)

C7_Witness ==
    /\ TwoFieldShape(Model)
    /\ Called("field_get_default")
    /\ last.arg.name = "b"
    /\ last.result = Ok(IntV(MaxVal))

\* C8 as stated: the wrapped function is called at most once per instance.
C8_AtMostOneCall == \A o \in Objs : ncalls[o] <= 1

\* C8 amended: the wrapped function is called on a read only while no call on
\* that instance has returned; the value the first returning call gave is
\* stored, every later read returns it without a call, and it was computed
\* on the instance it is returned for.
C8_CachedAfterFirstReturn ==
    /\ [](\A o \in Objs : objdict[o] # NotFound =>
              objdict[o] = FuncValue(o, ncalls[o]))
    /\ []((got.obj # "-" /\ got.out.ok) =>
              (got.out.val = objdict[got.obj] /\ got.out.val.obj = got.obj))
    /\ [][\A o \in Objs : objdict[o] # NotFound =>
              (objdict'[o] = objdict[o] /\ ncalls'[o] = ncalls[o])]_vars

C8_Witness ==
    /\ got.obj = "o1" /\ ~got.called
    /\ got.out = Ok(FuncValue("o1", MaxCalls))
    /\ objdict["o2"] = FuncValue("o2", 1)

PropertyKeys == DOMAIN last.result.val.items.properties

\* C9 as stated: the schema's "properties" has an entry under the name of
\* every declared field.
C9_PropertiesByName ==
    Called("model_json_schema") =>
      /\ last.result.ok
      /\ "properties" \in DOMAIN last.result.val.items
      /\ FieldNames(Model) \subseteq PropertyKeys

\* C9 amended: the schema's "properties" has one entry per declared field,
\* under the field's alias when it declares one and under its name otherwise.
C9_PropertiesByAlias ==
    Called("model_json_schema") =>
      /\ last.result.ok
      /\ "properties" \in DOMAIN last.result.val.items
      /\ PropertyKeys = {KeyOf(d) : d \in Range(Model.fields)}
      /\ Cardinality(PropertyKeys) = Len(Model.fields)

C9_Witness ==
    /\ Called("model_json_schema")
    /\ ~PYDANTIC_V2
    /\ PropertyKeys = {"A", "b"}

V2Attrs ==
    {"model_validate", "model_dump", "model_dump_json", "model_validate_json",
     "model_json_schema", "model_copy", "is_required", "annotation", "model_config",
     "model_fields", "get_default"}
V1Attrs ==
    {"parse_obj", "dict", "json", "parse_raw", "schema", "copy", "required",
     "outer_type_", "__config__", "__fields__", "get_default"}

\* C10: a facade call makes one library call (validate_pydantic_version
\* none), of the generation the flag selects; parse_obj and model_parse have
\* the same outcome and make the same call on every input.
C10_SingleDelegation ==
    last.op # "none" =>
      /\ Len(last.calls) = IF Called("validate_pydantic_version") THEN 0 ELSE 1
      /\ \A i \in DOMAIN last.calls :
            last.calls[i].attr \in (IF PYDANTIC_V2 THEN V2Attrs ELSE V1Attrs)
      /\ \A value \in HeldObjects : parse_obj(Model, value) = model_parse(Model, value)

C10_Witness ==
    /\ Called("model_json")
    /\ ~PYDANTIC_V2
    /\ last.calls[1].attr = "json"
    /\ last.result.ok

====
